---- MODULE Spec2Model ----
(***************************************************************************)
(* screen-addresses.js: bulk screening of addresses against a remote risk  *)
(* service.  The model follows start(): the category catalog is fetched,   *)
(* the header write is issued, the input is split into batches, and each   *)
(* batch is screened concurrently (register, then retrieve, per address),  *)
(* flattened into rows, appended to the output and followed by the rate    *)
(* limiter.  fs.writeFile / fs.appendFile are callback calls that start()  *)
(* never awaits: an issued write stays in flight until it lands.           *)
(***************************************************************************)
EXTENDS Integers, Sequences, FiniteSets, TLC

\* ------------------------------------------------------------------ bounds
MaxLines == 3          \* longest input file, in lines
MaxScreenLines == 2    \* longest input file when every kind of reply is drawn
MaxParallelism == 2    \* largest configured parallelism
Epoch == 100000        \* Date.now() when start() begins (ms since 1970)

\* -------------------------------------------------------- program constants
WindowMs == 60000      \* checkRateLimit: "newer than 1 min old"
SleepTargetMs == 61000 \* checkRateLimit: sleep up to 61 s after the oldest batch
RequestsPerAddress == 2

DIRECT == "direct"
INDIRECT == "indirect"

\* JavaScript's undefined and null, and what Array.prototype.join makes of them
Undefined == "undefined"
Null == "null"
Cell(v) == IF v \in {Undefined, Null} THEN "" ELSE v

Min(a, b) == IF a < b THEN a ELSE b
\* Math.ceil(a / b) for a >= 0, b > 0
Ceil(a, b) == (a + b - 1) \div b

header_fields == <<"address", "screenStatus", "risk", "riskReason", "category", "name">>

\* ------------------------------------------------------------ environment
\* The configurations a run is started with: rateLimit and parallelism are
\* the two tunables at the top of the file.
Parallelisms == 1..MaxParallelism
RateLimits == {1, 2, 4}

\* Addresses: line i of the input, when it is not blank, holds Address(i).
Address(i) == "addr" \o ToString(i)
Lines(max) == UNION {[1..n -> {0, 1}] : n \in 0..max}
RawInput(f) == [i \in DOMAIN f |-> IF f[i] = 1 THEN Address(i) ELSE ""]
Inputs(max) == {RawInput(f) : f \in Lines(max)}

\* Category labels the service may list, with their order under
\* Array.prototype.sort (UTF-16 code unit order of the strings).
LexRank == ("exchange" :> 1) @@ ("mixing" :> 2)

\* What a fetch can come to: an HTTP response that is ok (with its body), an
\* HTTP response that is not ok, or a rejected fetch (transport fault).
StatusReply == [kind |-> "status", status |-> 500, statusText |-> "Internal Server Error"]
\* The message of a rejected fetch is free text; the HTTP client's reads
\* "request to <url> failed, reason: <cause>".
FaultReply ==
    [kind |-> "fault",
     message |-> "request to https://api.chainalysis.com failed, reason: socket hang up"]

\* Bodies of the categories endpoint: a JSON array of labels, or JSON that is
\* no array (categories.sort is then not a function).
CatalogReplies ==
    { [kind |-> "ok", array |-> TRUE, list |-> <<"mixing", "exchange">>],
      [kind |-> "ok", array |-> FALSE, list |-> <<>>],
      StatusReply, FaultReply }

\* Risk profiles the retrieve endpoint returns.
NoCluster == [present |-> FALSE, category |-> Undefined, name |-> Undefined]
Exposure(c, t, v) == [category |-> c, exposureType |-> t, value |-> v]
ProfileClean ==
    [risk |-> "Low", riskReason |-> Null, cluster |-> NoCluster,
     hasExposures |-> TRUE, exposures |-> <<>>]
ProfileRisky ==
    [risk |-> "Severe", riskReason |-> "mixing exposure",
     cluster |-> [present |-> TRUE, category |-> "exchange", name |-> "Kraken"],
     hasExposures |-> TRUE,
     exposures |-> << Exposure("exchange", INDIRECT, 7),
                      Exposure("mixing", DIRECT, 100),
                      Exposure("atm", DIRECT, 9),
                      Exposure("mixing", INDIRECT, 40),
                      Exposure("mixing", DIRECT, 55) >>]
\* A key without indirect authorization: exposures carry no exposureType.
ProfileUntyped ==
    [risk |-> "Medium", riskReason |-> Undefined,
     cluster |-> [present |-> TRUE, category |-> "mixing", name |-> Undefined],
     hasExposures |-> TRUE,
     exposures |-> << Exposure("exchange", Undefined, 3) >>]
Profiles == {ProfileClean, ProfileRisky, ProfileUntyped}

RegisterReplies == { [kind |-> "ok"], StatusReply, FaultReply }
\* json: "object" (a profile), "null" (the body is the JSON text null),
\* "primitive" (a JSON number, string or boolean), "invalid" (json() rejects).
RetrieveReplies ==
    { [kind |-> "ok", json |-> "object", profile |-> p] : p \in Profiles } \cup
    { [kind |-> "ok", json |-> j, profile |-> ProfileClean] : j \in {"null", "primitive", "invalid"} } \cup
    { StatusReply, FaultReply }

\* The replies drawn on the longer inputs: a profile, and the body that makes
\* check_exposure resolve with null.
RunRegisterReplies == { [kind |-> "ok"] }
RunRetrieveReplies ==
    { [kind |-> "ok", json |-> "object", profile |-> ProfileRisky],
      [kind |-> "ok", json |-> "null", profile |-> ProfileClean] }

\* Time a batch's screenings take, from the batch start to the join, in ms.
Durations == {0, 30000, 60000}
ScreenDurations == {0}
\* How long after it is due a timeout fires, in ms.
TimerLateness == {0, 1}

\* ------------------------------------------------------------------ state
VARIABLES
    pc,               \* where start() is
    include_indirect, \* -i
    parallelism,      \* const parallelism
    rateLimit,        \* const rateLimit
    input,            \* the lines of the input file
    catalogReply,     \* what the categories fetch came to (None before it)
    categories,       \* the global category list
    data,             \* the non-blank lines
    batches,          \* splitIntoBatches(data, parallelism)
    currentBatch,     \* 1-based index of the batch in the loop
    batchTimes,       \* the rate window, most recent first
    now,              \* Date.now()
    sleepTime,        \* the timeout checkRateLimit is sleeping on (0: none)
    promises,         \* the check_exposure calls of the current batch, each with
                      \* the replies it got (post, get), what it resolved with
                      \* and its rank among the batch's calls in order of
                      \* completion (finished, 0 while it runs)
    pending,          \* fs operations issued and not yet landed, in issue order
    file,             \* the lines of the output file
    startTimes,       \* history: the start time recorded for each batch
    requests,         \* history: the remote calls issued, <<kind, batch, index>>
    outcomes,         \* history: <<batch, index>> of every resolved check_exposure
    appended          \* history: per append issued, the batch, its calls and its rows

vars == << pc, include_indirect, parallelism, rateLimit, input, catalogReply,
           categories, data, batches, currentBatch, batchTimes, now, sleepTime,
           promises, pending, file, startTimes, requests, outcomes, appended >>

None == [kind |-> "none"]

InitOn(inputs) ==
    /\ pc = "fetchCategories"
    /\ include_indirect \in BOOLEAN
    /\ parallelism \in Parallelisms
    /\ rateLimit \in RateLimits
    /\ input \in inputs
    /\ catalogReply = None
    /\ categories = <<>>
    /\ data = <<>>
    /\ batches = <<>>
    /\ currentBatch = 1
    /\ batchTimes = <<>>
    /\ now = Epoch
    /\ sleepTime = 0
    /\ promises = <<>>
    /\ pending = <<>>
    /\ file = <<>>
    /\ startTimes = <<>>
    /\ requests = {}
    /\ outcomes = {}
    /\ appended = <<>>

Init == InitOn(Inputs(MaxLines))
InitScreen == InitOn(Inputs(MaxScreenLines))

\* --------------------------------------------------------- pure functions
\* Array.prototype.sort() on labels: ascending string order.
RECURSIVE InsertSorted(_, _)
InsertSorted(x, s) ==
    IF s = <<>> THEN <<x>>
    ELSE IF LexRank[x] < LexRank[Head(s)] THEN <<x>> \o s
    ELSE <<Head(s)>> \o InsertSorted(x, Tail(s))

RECURSIVE SortLabels(_)
SortLabels(s) == IF s = <<>> THEN <<>> ELSE InsertSorted(Head(s), SortLabels(Tail(s)))

\* data.filter(Boolean): the empty string is the only falsy line.
RECURSIVE FilterBoolean(_)
FilterBoolean(s) ==
    IF s = <<>> THEN <<>>
    ELSE IF Head(s) = "" THEN FilterBoolean(Tail(s))
    ELSE <<Head(s)>> \o FilterBoolean(Tail(s))

\* arr.slice(from, to) with 0-based from (inclusive) and to (exclusive),
\* clamped to the array.
Slice(arr, from, to) == SubSeq(arr, from + 1, Min(to, Len(arr)))

\* Variant: a flat chunker of size max, without the halving of small inputs.
splitIntoBatchesFlat(arr, max) ==
    LET size == max
        length == Ceil(Len(arr), size)
    IN  [i \in 1..length |-> Slice(arr, (i - 1) * size, (i - 1) * size + size)]

\* Variant: each slice ends one element early.
splitIntoBatchesShort(arr, max) ==
    LET size == Min(max, Ceil(Len(arr), 2))
        length == IF size = 0 THEN 0 ELSE Ceil(Len(arr), size)
    IN  [i \in 1..length |-> Slice(arr, (i - 1) * size, (i - 1) * size + size - 1)]

\* size is 0 only for an empty arr: Math.ceil(0 / 0) is NaN and
\* Array.from({length: NaN}) is the empty array.
splitIntoBatches(arr, max) ==
    LET size == Min(max, Ceil(Len(arr), 2))
        length == IF size = 0 THEN 0 ELSE Ceil(Len(arr), size)
    IN  [i \in 1..length |-> Slice(arr, (i - 1) * size, (i - 1) * size + size)]

requestsPerBatch == RequestsPerAddress * parallelism
batchesPerMin == rateLimit \div requestsPerBatch

\* Variant: the window is kept oldest first (push, then shift).
setBatchTimePush(array, item, length) ==
    LET pushed == array \o <<item>>
    IN  IF Len(pushed) > length THEN Tail(pushed) ELSE pushed

\* Variant: the oldest entry is never dropped.
setBatchTimeNoPop(array, item, length) == <<item>> \o array

\* array.unshift(item) > length ? array.pop() : null
setBatchTime(array, item, length) ==
    LET unshifted == <<item>> \o array
    IN  IF Len(unshifted) > length
        THEN SubSeq(unshifted, 1, Len(unshifted) - 1)
        ELSE unshifted

\* The header line, as its comma-separated columns.
RECURSIVE SplitColumns(_)
SplitColumns(cats) ==
    IF cats = <<>> THEN <<>>
    ELSE <<Head(cats) \o "_direct", Head(cats) \o "_indirect">> \o SplitColumns(Tail(cats))

csv_header(cats) ==
    IF include_indirect THEN header_fields \o SplitColumns(cats)
    ELSE header_fields \o cats

\* e.message of what check_exposure throws or catches.
Message(r) ==
    IF r.kind = "status" THEN ToString(r.status) \o " " \o r.statusText
    ELSE IF r.kind = "fault" THEN r.message
    ELSE "invalid json response body"

NoResult ==
    [kind |-> "pending", address |-> Undefined, screenStatus |-> Undefined,
     risk |-> Undefined, riskReason |-> Undefined, cluster |-> NoCluster,
     hasExposures |-> FALSE, exposures |-> <<>>]

\* address_info = {} with address and screenStatus set in the catch block
MinimalObject(address, message) ==
    [NoResult EXCEPT !.kind = "object", !.address = address, !.screenStatus = message]

\* Variant: a failure is recorded with the status of a success.
check_exposure_swallow(address, post, get) ==
    IF post.kind = "ok" /\ get.kind = "ok" /\ get.json = "object"
    THEN [kind |-> "object", address |-> address, screenStatus |-> "complete",
          risk |-> get.profile.risk, riskReason |-> get.profile.riskReason,
          cluster |-> get.profile.cluster,
          hasExposures |-> get.profile.hasExposures,
          exposures |-> get.profile.exposures]
    ELSE MinimalObject(address, "complete")

\* What check_exposure(record) resolves with, given what the register call
\* (post) and the retrieve call (get) came to; get is not issued, and not
\* read here, unless post is ok.
check_exposure(address, post, get) ==
    IF post.kind # "ok" THEN MinimalObject(address, Message(post))
    ELSE IF get.kind # "ok" THEN MinimalObject(address, Message(get))
    ELSE IF get.json = "invalid" THEN MinimalObject(address, Message(get))
    ELSE IF get.json = "null"
         \* address_info is null: setting .address throws in the try block and
         \* again in the catch block; the return in finally discards the throw
         THEN [NoResult EXCEPT !.kind = "null"]
    ELSE IF get.json = "primitive"
         \* property writes on a primitive are dropped (sloppy mode)
         THEN [NoResult EXCEPT !.kind = "primitive"]
    ELSE [kind |-> "object", address |-> address, screenStatus |-> "complete",
          risk |-> get.profile.risk, riskReason |-> get.profile.riskReason,
          cluster |-> get.profile.cluster,
          hasExposures |-> get.profile.hasExposures,
          exposures |-> get.profile.exposures]

\* exposures.find(pred)?.value joined into a row, given the exposures that
\* satisfy pred, in order: the value of the first, the empty string when
\* there is none.
FindValue(matches) ==
    IF matches = <<>> THEN "" ELSE ToString(Head(matches).value)

\* Variant: without -i the exposureType is not looked at.
CategoryCellsAnyType(result, cat) ==
    IF include_indirect
    THEN << FindValue(SelectSeq(result.exposures,
                      LAMBDA e : e.category = cat /\ e.exposureType = DIRECT)),
            FindValue(SelectSeq(result.exposures,
                      LAMBDA e : e.category = cat /\ e.exposureType = INDIRECT)) >>
    ELSE << FindValue(SelectSeq(result.exposures, LAMBDA e : e.category = cat)) >>

\* The body of for (cat of categories): the cells pushed for one category.
CategoryCells(result, cat) ==
    IF include_indirect
    THEN << FindValue(SelectSeq(result.exposures,
                      LAMBDA e : e.category = cat /\ e.exposureType = DIRECT)),
            FindValue(SelectSeq(result.exposures,
                      LAMBDA e : e.category = cat /\ e.exposureType = INDIRECT)) >>
    ELSE << FindValue(SelectSeq(result.exposures,
                      LAMBDA e : e.category = cat /\ ~(e.exposureType = INDIRECT))) >>

RECURSIVE AllCategoryCells(_, _)
AllCategoryCells(result, cats) ==
    IF cats = <<>> THEN <<>>
    ELSE CategoryCells(result, Head(cats)) \o AllCategoryCells(result, Tail(cats))

\* The fields a reader of the file finds in a text between commas.  Strings
\* are atoms here, so the texts of the model that hold a comma are listed
\* with their fields; any other text is one field.
CommaFields(text) ==
    IF text = FaultReply.message
    THEN << "request to https://api.chainalysis.com failed", " reason: socket hang up" >>
    ELSE << text >>

\* Variant: an element is written as one field whatever it holds.
JoinQuoted(row) == row

\* row.join(): the elements separated by commas, nothing quoted or escaped,
\* as the comma-separated fields of the resulting line.
RECURSIVE Join(_)
Join(row) ==
    IF row = <<>> THEN <<>> ELSE CommaFields(Head(row)) \o Join(Tail(row))

\* The results.map callback: one result to one line of the file, given as
\* its comma-separated fields.
Row(result) ==
    Join(<< Cell(result.address), Cell(result.screenStatus), Cell(result.risk),
            Cell(result.riskReason), Cell(result.cluster.category),
            Cell(result.cluster.name) >>
         \o AllCategoryCells(result, categories))

\* ---------------------------------------------------------------- actions
\* fetchCategories throws on a rejected fetch, on a response that is not ok
\* and on a body it cannot sort.
fetchCategoriesThrows(r) == r.kind # "ok" \/ ~r.array

\* Variant: a failed catalog fetch is swallowed and the run goes on with an
\* empty catalog.
fetchCategoriesCaught(r) ==
    /\ pc = "fetchCategories"
    /\ catalogReply' = r
    /\ pc' = "createOutput"
    /\ categories' = IF fetchCategoriesThrows(r) THEN <<>> ELSE SortLabels(r.list)
    /\ UNCHANGED << include_indirect, parallelism, rateLimit, input, data, batches,
                    currentBatch, batchTimes, now, sleepTime, promises, pending,
                    file, startTimes, requests, outcomes, appended >>

\* start, line 56: let categories = await fetchCategories().  The call is
\* outside the try block: a throw rejects start() and nothing follows.
fetchCategories(r) ==
    /\ pc = "fetchCategories"
    /\ catalogReply' = r
    /\ IF fetchCategoriesThrows(r)
       THEN /\ pc' = "rejected"
            /\ UNCHANGED categories
       ELSE /\ pc' = "createOutput"
            /\ categories' = SortLabels(r.list)
    /\ UNCHANGED << include_indirect, parallelism, rateLimit, input, data, batches,
                    currentBatch, batchTimes, now, sleepTime, promises, pending,
                    file, startTimes, requests, outcomes, appended >>

\* start, lines 57-78: the header write is issued (not awaited), the input is
\* read, blank lines dropped, the batches formed and the rate window filled
\* with zeros.
createOutput ==
    /\ pc = "createOutput"
    /\ pending' = Append(pending, [op |-> "writeFile", lines |-> <<csv_header(categories)>>])
    /\ data' = FilterBoolean(input)
    /\ batches' = splitIntoBatches(data', parallelism)
    /\ currentBatch' = 1
    /\ batchTimes' = [i \in 1..batchesPerMin |-> 0]
    /\ pc' = "loop"
    /\ UNCHANGED << include_indirect, parallelism, rateLimit, input, catalogReply,
                    categories, now, sleepTime, promises, file, startTimes,
                    requests, outcomes, appended >>

\* start, lines 80-83, and processBatch, lines 104-108: the start time is
\* recorded and check_exposure is called for every record of the batch; each
\* call runs to its first await, the register fetch.
startBatch ==
    /\ pc = "loop"
    /\ currentBatch <= Len(batches)
    /\ batchTimes' = setBatchTime(batchTimes, now, batchesPerMin)
    /\ startTimes' = Append(startTimes, now)
    /\ promises' = [i \in 1..Len(batches[currentBatch]) |->
                      [state |-> "register", address |-> batches[currentBatch][i],
                       post |-> None, get |-> None, result |-> NoResult,
                       finished |-> 0]]
    /\ requests' = requests \cup
          { <<"register", currentBatch, i>> : i \in 1..Len(batches[currentBatch]) }
    /\ pc' = "processBatch"
    /\ UNCHANGED << include_indirect, parallelism, rateLimit, input, catalogReply,
                    categories, data, batches, currentBatch, now, sleepTime,
                    pending, file, outcomes, appended >>

\* How many calls of the batch have resolved.
Completed(ps) == Cardinality({ i \in DOMAIN ps : ps[i].state = "done" })

\* Variant: the retrieve call is made whatever the register call came to.
registerReplyThenRetrieve(i, r) ==
    /\ pc = "processBatch"
    /\ i \in DOMAIN promises
    /\ promises[i].state = "register"
    /\ promises' = [promises EXCEPT ![i].state = "retrieve", ![i].post = r]
    /\ requests' = requests \cup { <<"retrieve", currentBatch, i>> }
    /\ UNCHANGED << pc, include_indirect, parallelism, rateLimit, input,
                    catalogReply, categories, data, batches, currentBatch,
                    batchTimes, now, sleepTime, pending, file, startTimes,
                    outcomes, appended >>

\* check_exposure, lines 152-153: the register call of promise i comes to r.
registerReply(i, r) ==
    /\ pc = "processBatch"
    /\ i \in DOMAIN promises
    /\ promises[i].state = "register"
    /\ IF r.kind = "ok"
       THEN /\ promises' = [promises EXCEPT ![i].state = "retrieve", ![i].post = r]
            /\ requests' = requests \cup { <<"retrieve", currentBatch, i>> }
            /\ UNCHANGED outcomes
       ELSE /\ promises' = [promises EXCEPT
                  ![i].state = "done", ![i].post = r,
                  ![i].finished = Completed(promises) + 1,
                  ![i].result = check_exposure(promises[i].address, r, None)]
            /\ outcomes' = outcomes \cup { <<currentBatch, i>> }
            /\ UNCHANGED requests
    /\ UNCHANGED << pc, include_indirect, parallelism, rateLimit, input,
                    catalogReply, categories, data, batches, currentBatch,
                    batchTimes, now, sleepTime, pending, file, startTimes, appended >>

\* check_exposure, lines 156-171: the retrieve call of promise i comes to r
\* and the call resolves.
retrieveReply(i, r) ==
    /\ pc = "processBatch"
    /\ i \in DOMAIN promises
    /\ promises[i].state = "retrieve"
    /\ promises' = [promises EXCEPT
          ![i].state = "done", ![i].get = r,
          ![i].finished = Completed(promises) + 1,
          ![i].result = check_exposure(promises[i].address, promises[i].post, r)]
    /\ outcomes' = outcomes \cup { <<currentBatch, i>> }
    /\ UNCHANGED << pc, include_indirect, parallelism, rateLimit, input,
                    catalogReply, categories, data, batches, currentBatch,
                    batchTimes, now, sleepTime, pending, file, startTimes,
                    requests, appended >>

\* Variant: fulfilled as soon as one promise is.
PromiseAny(ps) == \E i \in DOMAIN ps : ps[i].state = "done"

\* Promise.all(promises) is fulfilled once every promise is.
PromiseAll(ps) == \A i \in DOMAIN ps : ps[i].state = "done"

\* check_exposure, lines 152 and 156: fetch is called without a timeout or an
\* abort signal, so a call the service never answers stays pending for good.
neverResponds(i) ==
    /\ pc = "processBatch"
    /\ promises[i].state \in {"register", "retrieve"}
    /\ promises' = [promises EXCEPT ![i].state = "unanswered"]
    /\ UNCHANGED << pc, include_indirect, parallelism, rateLimit, input,
                    catalogReply, categories, data, batches, currentBatch,
                    batchTimes, now, sleepTime, pending, file, startTimes,
                    requests, outcomes, appended >>

\* Variant: the results are gathered in the order the calls completed.
PromiseAllResultsByCompletion(ps) ==
    [n \in DOMAIN ps |->
        IF \E i \in DOMAIN ps : ps[i].finished = n
        THEN ps[CHOOSE i \in DOMAIN ps : ps[i].finished = n].result
        ELSE ps[n].result]

\* The results Promise.all hands to then: result i is that of promise i.
PromiseAllResults(ps) == [i \in DOMAIN ps |-> ps[i].result]

\* processBatch, lines 110-141, d ms after the batch started: the results
\* are mapped to rows and the append is issued (not awaited).  Reading a
\* property of a null result throws: processBatch rejects and the catch of
\* start, line 91, ends the loop.
processBatchThen(d) ==
    /\ pc = "processBatch"
    /\ PromiseAll(promises)
    /\ now' = now + d
    /\ IF \E i \in DOMAIN promises : promises[i].result.kind = "null"
       THEN /\ pc' = "caught"
            /\ UNCHANGED << pending, appended >>
       ELSE LET results == PromiseAllResults(promises)
                final_results == [i \in DOMAIN results |-> Row(results[i])]
            IN  /\ pending' = Append(pending, [op |-> "appendFile", lines |-> final_results])
                /\ appended' = Append(appended,
                       [batch |-> currentBatch, calls |-> promises, rows |-> final_results])
                /\ pc' = "checkRateLimit"
    /\ UNCHANGED << include_indirect, parallelism, rateLimit, input, catalogReply,
                    categories, data, batches, currentBatch, batchTimes, sleepTime,
                    promises, file, startTimes, requests, outcomes >>

\* Variant: the newest entry of the window is read instead of the oldest.
checkRateLimitNewest ==
    /\ pc = "checkRateLimit"
    /\ LET timeSinceBatch == now - batchTimes[1]
       IN  IF batchTimes # <<>> /\ timeSinceBatch < WindowMs
           THEN /\ sleepTime' = SleepTargetMs - timeSinceBatch
                /\ pc' = "sleeping"
                /\ UNCHANGED currentBatch
           ELSE /\ sleepTime' = 0
                /\ pc' = "loop"
                /\ currentBatch' = currentBatch + 1
    /\ UNCHANGED << include_indirect, parallelism, rateLimit, input, catalogReply,
                    categories, data, batches, batchTimes, now, promises, pending,
                    file, startTimes, requests, outcomes, appended >>

\* Variant: the entry read is one past the tail (batches[batches.length]),
\* which is undefined: the comparison is false and the run never sleeps.
checkRateLimitPastTail ==
    /\ pc = "checkRateLimit"
    /\ sleepTime' = 0
    /\ pc' = "loop"
    /\ currentBatch' = currentBatch + 1
    /\ UNCHANGED << include_indirect, parallelism, rateLimit, input, catalogReply,
                    categories, data, batches, batchTimes, now, promises, pending,
                    file, startTimes, requests, outcomes, appended >>

\* Variant: the test is !(timeSinceBatch >= 60000), which is true on an empty
\* window too, and the run then sleeps the whole 61 000 ms.
checkRateLimitUnlessElapsed ==
    /\ pc = "checkRateLimit"
    /\ LET timeSinceBatch == IF batchTimes = <<>> THEN 0
                             ELSE now - batchTimes[Len(batchTimes)]
       IN  IF ~(timeSinceBatch >= WindowMs)
           THEN /\ sleepTime' = SleepTargetMs - timeSinceBatch
                /\ pc' = "sleeping"
                /\ UNCHANGED currentBatch
           ELSE /\ sleepTime' = 0
                /\ pc' = "loop"
                /\ currentBatch' = currentBatch + 1
    /\ UNCHANGED << include_indirect, parallelism, rateLimit, input, catalogReply,
                    categories, data, batches, batchTimes, now, promises, pending,
                    file, startTimes, requests, outcomes, appended >>

\* checkRateLimit, lines 200-205.  On an empty window batches[-1] is
\* undefined, timeSinceBatch is NaN and NaN < 60000 is false.
checkRateLimit ==
    /\ pc = "checkRateLimit"
    /\ LET timeSinceBatch == now - batchTimes[Len(batchTimes)]
       IN  IF batchTimes # <<>> /\ timeSinceBatch < WindowMs
           THEN /\ sleepTime' = SleepTargetMs - timeSinceBatch
                /\ pc' = "sleeping"
                /\ UNCHANGED currentBatch
           ELSE /\ sleepTime' = 0
                /\ pc' = "loop"
                /\ currentBatch' = currentBatch + 1
    /\ UNCHANGED << include_indirect, parallelism, rateLimit, input, catalogReply,
                    categories, data, batches, batchTimes, now, promises, pending,
                    file, startTimes, requests, outcomes, appended >>

\* checkRateLimit, line 204: the timeout fires, late ms after it is due.
wake(late) ==
    /\ pc = "sleeping"
    /\ now' = now + sleepTime + late
    /\ sleepTime' = 0
    /\ currentBatch' = currentBatch + 1
    /\ pc' = "loop"
    /\ UNCHANGED << include_indirect, parallelism, rateLimit, input, catalogReply,
                    categories, data, batches, batchTimes, promises, pending,
                    file, startTimes, requests, outcomes, appended >>

\* start, lines 87-89: the loop is over.
finish ==
    /\ pc = "loop"
    /\ currentBatch > Len(batches)
    /\ pc' = "done"
    /\ UNCHANGED << include_indirect, parallelism, rateLimit, input, catalogReply,
                    categories, data, batches, currentBatch, batchTimes, now,
                    sleepTime, promises, pending, file, startTimes, requests,
                    outcomes, appended >>

RemoveAt(s, k) == SubSeq(s, 1, k - 1) \o SubSeq(s, k + 1, Len(s))

\* An fs operation in flight lands: writeFile (flag 'w') truncates the file
\* and writes its line, appendFile adds its lines at the end.  The operations
\* in flight run on the thread pool and land in any order.
land(k) ==
    /\ k \in DOMAIN pending
    /\ file' = IF pending[k].op = "writeFile"
               THEN pending[k].lines
               ELSE file \o pending[k].lines
    /\ pending' = RemoveAt(pending, k)
    /\ UNCHANGED << pc, include_indirect, parallelism, rateLimit, input,
                    catalogReply, categories, data, batches, currentBatch,
                    batchTimes, now, sleepTime, promises, startTimes, requests,
                    outcomes, appended >>

\* A run on inputs of up to MaxLines lines.
Next ==
    \/ \E r \in CatalogReplies : fetchCategories(r)
    \/ createOutput
    \/ startBatch
    \/ \E i \in DOMAIN promises, r \in RunRegisterReplies : registerReply(i, r)
    \/ \E i \in DOMAIN promises, r \in RunRetrieveReplies : retrieveReply(i, r)
    \/ \E d \in Durations : processBatchThen(d)
    \/ checkRateLimit
    \/ \E late \in TimerLateness : wake(late)
    \/ finish
    \/ \E k \in DOMAIN pending : land(k)

Spec == Init /\ [][Next]_vars

\* A run on inputs of up to MaxScreenLines lines, with every kind of reply.
NextScreen ==
    \/ \E r \in CatalogReplies : fetchCategories(r)
    \/ createOutput
    \/ startBatch
    \/ \E i \in DOMAIN promises, r \in RegisterReplies : registerReply(i, r)
    \/ \E i \in DOMAIN promises, r \in RetrieveReplies : retrieveReply(i, r)
    \/ \E d \in ScreenDurations : processBatchThen(d)
    \/ checkRateLimit
    \/ wake(0)
    \/ finish
    \/ \E k \in DOMAIN pending : land(k)

SpecScreen == InitScreen /\ [][NextScreen]_vars

\* A run on inputs of up to MaxScreenLines lines in which the service may
\* leave a call unanswered.
NextUnanswered ==
    \/ \E r \in CatalogReplies : fetchCategories(r)
    \/ createOutput
    \/ startBatch
    \/ \E i \in DOMAIN promises, r \in RunRegisterReplies : registerReply(i, r)
    \/ \E i \in DOMAIN promises, r \in RunRetrieveReplies : retrieveReply(i, r)
    \/ \E i \in DOMAIN promises : neverResponds(i)
    \/ \E d \in ScreenDurations : processBatchThen(d)
    \/ checkRateLimit
    \/ wake(0)
    \/ finish
    \/ \E k \in DOMAIN pending : land(k)

SpecUnanswered == InitScreen /\ [][NextUnanswered]_vars

\* ----------------------------------------------------------------- claims
RECURSIVE Concat(_)
Concat(ss) == IF ss = <<>> THEN <<>> ELSE Head(ss) \o Concat(Tail(ss))

Split == pc \notin {"fetchCategories", "rejected", "createOutput"}
NonBlankLines == SelectSeq(input, LAMBDA l : l # "")
DataRows == SelectSeq(file, LAMBDA l : l # csv_header(categories))
RunOver == pc = "done" /\ pending = <<>>

\* C1: once the run has finished and every issued write has landed, the
\* output holds exactly one data row per non-blank input line, in the order
\* of the input lines.
C1_OneRowPerLineInOrder ==
    RunOver => [i \in DOMAIN DataRows |-> DataRows[i][1]] = NonBlankLines

\* C2: check_exposure never fails outward: every call resolves with a record
\* that carries its address and a screenStatus, and no batch or run is
\* aborted by what a register or retrieve call returns or throws.
C2_NeverFailsOutward ==
    /\ \A i \in DOMAIN promises :
          promises[i].state = "done" =>
             /\ promises[i].result.kind = "object"
             /\ promises[i].result.address = promises[i].address
             /\ promises[i].result.screenStatus # Undefined
    /\ pc # "caught"

\* C3: the batches are consecutive slices whose concatenation, in batch
\* order, is the address list; no batch is empty.
C3_BatchesPartitionInput ==
    Split => /\ Concat(batches) = NonBlankLines
             /\ \A b \in DOMAIN batches : batches[b] # <<>>

C3_Witness ==
    /\ Split
    /\ Len(NonBlankLines) = 3
    /\ Len(batches) = 2
    /\ Len(batches[1]) = 2

\* C4: for N >= 1 addresses the batch size is min(P, ceil(N / 2)), there are
\* ceil(N / size) batches, each of length size except possibly the last; for
\* N <= 2P there are at most 2 batches, and 2 addresses with P = 10 give two
\* batches of one address each.
C4_BatchSizes ==
    /\ (Split /\ Len(NonBlankLines) >= 1) =>
          LET N == Len(NonBlankLines)
              half == IF N % 2 = 0 THEN N \div 2 ELSE N \div 2 + 1
              size == IF parallelism <= half THEN parallelism ELSE half
              count == IF N % size = 0 THEN N \div size ELSE N \div size + 1
          IN  /\ Len(batches) = count
              /\ \A b \in 1..(count - 1) : Len(batches[b]) = size
              /\ Len(batches[count]) \in 1..size
              /\ N <= 2 * parallelism => count <= 2
    /\ splitIntoBatches(<<"0xAAA", "0xBBB">>, 10) = << <<"0xAAA">>, <<"0xBBB">> >>

C4_Witness ==
    /\ Split
    /\ Len(NonBlankLines) = 2
    /\ parallelism = 2
    /\ Len(batches) = 2

\* C5: for capacity >= 1 and every batch i > capacity, the start time
\* recorded for batch i is at least 61 000 ms after the one recorded for
\* batch i - capacity.  (With capacity 0, batch i - capacity is batch i.)
C5_Gap61 ==
    batchesPerMin >= 1 =>
       \A i \in (batchesPerMin + 1)..Len(startTimes) :
          startTimes[i] - startTimes[i - batchesPerMin] >= 61000

\* C5, amended: for capacity >= 1 and every batch i > capacity, the start
\* time recorded for batch i is at least 60 000 ms after the one recorded for
\* batch i - capacity.
C5_Gap60 ==
    batchesPerMin >= 1 =>
       \A i \in (batchesPerMin + 1)..Len(startTimes) :
          startTimes[i] - startTimes[i - batchesPerMin] >= 60000

C5_Witness ==
    /\ batchesPerMin = 2
    /\ Len(startTimes) = 3
    /\ startTimes[3] - startTimes[1] = 60000

\* C6: checkRateLimit does not wait while fewer than capacity batches have
\* started; otherwise, with elapsed the time since the oldest batch start in
\* the window (the start of the capacity-th most recent batch), it sleeps for
\* exactly 61 000 - elapsed ms if elapsed < 60 000 and not at all otherwise.
C6_WaitsAsSpecified ==
    [][ (pc = "checkRateLimit" /\ pc' # pc) =>
          LET started == Len(startTimes)
              elapsed == now - startTimes[started - batchesPerMin + 1]
          IN  /\ started < batchesPerMin => (pc' = "loop" /\ sleepTime' = 0)
              /\ (batchesPerMin >= 1 /\ started >= batchesPerMin) =>
                    IF elapsed < 60000
                    THEN pc' = "sleeping" /\ sleepTime' = 61000 - elapsed
                    ELSE pc' = "loop" /\ sleepTime' = 0 ]_vars

C6_Witness ==
    /\ pc = "sleeping"
    /\ batchesPerMin = 2
    /\ sleepTime = 31000

\* C7: if the catalog fetch errors or returns a non-success status, no
\* register or retrieve call is ever issued and neither the header nor any
\* row is written.
C7_CatalogFailureAborts ==
    catalogReply.kind \in {"status", "fault"} =>
       /\ requests = {}
       /\ startTimes = <<>>
       /\ pending = <<>>
       /\ appended = <<>>
       /\ file = <<>>

C7_Witness == pc = "rejected" /\ catalogReply.kind = "status"

CallFailed(c) == c.post.kind \in {"status", "fault"} \/ c.get.kind \in {"status", "fault"}
FailureDescription(reply) ==
    IF reply.kind = "status" THEN "500 Internal Server Error"
    ELSE "request to https://api.chainalysis.com failed, reason: socket hang up"

\* C8: the row of an address whose register or retrieve call failed holds
\* the address, a screenStatus that is the failure description and differs
\* from "complete", and nothing in risk, riskReason, cluster category, cluster
\* name and every category column.
C8_FailedRow ==
    \A a \in DOMAIN appended : \A i \in DOMAIN appended[a].calls :
       LET c == appended[a].calls[i]
           row == appended[a].rows[i]
           failed == IF c.post.kind # "ok" THEN c.post ELSE c.get
       IN  CallFailed(c) =>
              /\ row[1] = c.address
              /\ row[2] = FailureDescription(failed)
              /\ row[2] # "complete"
              /\ Len(row) > 6
              /\ \A j \in 3..Len(row) : row[j] = ""

C8_Witness ==
    \E a \in DOMAIN appended : \E i \in DOMAIN appended[a].calls :
       /\ appended[a].calls[i].post.kind = "ok"
       /\ appended[a].calls[i].get.kind = "status"

OfType(exposures, cat, type) ==
    { k \in DOMAIN exposures : exposures[k].category = cat /\ exposures[k].exposureType = type }
NotOfType(exposures, cat, type) ==
    { k \in DOMAIN exposures : exposures[k].category = cat /\ exposures[k].exposureType # type }
ValueOf(exposures, ks) ==
    IF ks = {} THEN ""
    ELSE ToString(exposures[CHOOSE k \in ks : \A m \in ks : k <= m].value)

\* C9: for each category in catalog order a row holds, without -i, one
\* column with the value of the (first) exposure of that category whose
\* exposureType is not "indirect", and with -i two columns, direct then
\* indirect, each the value of the (first) exposure of exactly that category
\* and exposureType; a column with no such exposure is empty.  The row of a
\* screening that succeeded has these columns and no other after the sixth
\* (the width of the rows of failed screenings is the matter of C20).
C9_RowFollowsCatalog ==
    \A a \in DOMAIN appended : \A i \in DOMAIN appended[a].calls :
       LET result == appended[a].calls[i].result
           row == appended[a].rows[i]
           exps == result.exposures
           extra == IF result.screenStatus = "complete" THEN {0} ELSE Nat
       IN  result.kind = "object" =>
              IF include_indirect
              THEN /\ Len(row) - (6 + 2 * Len(categories)) \in extra
                   /\ \A j \in DOMAIN categories :
                         /\ row[6 + 2 * j - 1] =
                               ValueOf(exps, OfType(exps, categories[j], "direct"))
                         /\ row[6 + 2 * j] =
                               ValueOf(exps, OfType(exps, categories[j], "indirect"))
              ELSE /\ Len(row) - (6 + Len(categories)) \in extra
                   /\ \A j \in DOMAIN categories :
                         row[6 + j] =
                            ValueOf(exps, NotOfType(exps, categories[j], "indirect"))

C9_Witness ==
    /\ ~include_indirect
    /\ categories = <<"exchange", "mixing">>
    /\ \E a \in DOMAIN appended : \E i \in DOMAIN appended[a].calls :
          /\ \E k \in DOMAIN appended[a].calls[i].result.exposures :
                /\ appended[a].calls[i].result.exposures[k].category = "exchange"
                /\ appended[a].calls[i].result.exposures[k].exposureType = "indirect"
          /\ appended[a].rows[i][7] = ""
          /\ appended[a].rows[i][8] = "100"

\* C10: no register or retrieve call of a batch is issued, and no start time
\* of a batch is recorded, before every address of every earlier batch has
\* its outcome.
C10_BatchesSequential ==
    /\ \A q \in requests : \A b \in 1..(q[2] - 1) : \A i \in DOMAIN batches[b] :
          <<b, i>> \in outcomes
    /\ \A b \in 1..(Len(startTimes) - 1) : \A i \in DOMAIN batches[b] :
          <<b, i>> \in outcomes

C10_Witness ==
    /\ Len(startTimes) = 2
    /\ Len(batches[1]) = 2
    /\ <<"retrieve", 2, 1>> \in requests

\* C11: whatever the order in which the screenings of a batch complete, the
\* rows of the batch's append are in the batch's input order.
C11_RowsInBatchOrder ==
    \A a \in DOMAIN appended :
       /\ Len(appended[a].rows) = Len(batches[appended[a].batch])
       /\ \A i \in DOMAIN appended[a].rows :
             appended[a].rows[i][1] = batches[appended[a].batch][i]

C11_Witness ==
    \E a \in DOMAIN appended :
       /\ Len(appended[a].calls) = 2
       /\ appended[a].calls[1].finished = 2
       /\ appended[a].calls[2].finished = 1

\* The appendFile calls issued and not yet carried out.
AppendsInFlight == { k \in DOMAIN pending : pending[k].op = "appendFile" }

\* C12: appends of different batches are serialized: at most one append is in
\* flight at any time, a batch's append having finished before the next batch's
\* append is issued.
C12_AppendsSerialized == Cardinality(AppendsInFlight) <= 1

\* The run has come to its end: finished, or stopped by a failure it reported.
Ended == pc \in {"done", "caught", "rejected"}

\* C13: an address whose register or retrieve call never responds cannot stall
\* the run: as long as the run has not ended some step of it can be taken, so
\* every batch started reaches its join and the run finishes.
C13_NeverStalls == Ended \/ ENABLED NextUnanswered

\* The batch whose join was the last one.
AfterFinalBatch == Split /\ currentBatch = Len(batches)

\* C14: the rate limiter is consulted only between batches: once the final
\* batch has completed checkRateLimit is not called and the run does not sleep.
C14_NoLimiterAfterFinalBatch ==
    AfterFinalBatch => pc \notin {"checkRateLimit", "sleeping"}

\* The calls of batch b: those of the batch in progress, or those recorded
\* with the batch's append.
StartedBatches == 1..Len(startTimes)
CallsOf(b) ==
    IF b = Len(startTimes) THEN promises
    ELSE LET a == CHOOSE a \in DOMAIN appended : appended[a].batch = b
         IN  appended[a].calls

\* C15: the retrieve call for an address is issued only after the register
\* call for that address has completed successfully; when register comes to a
\* non-success status or a fault, retrieve is never issued for the address.
C15_RetrieveAfterRegister ==
    \A b \in StartedBatches : \A i \in DOMAIN CallsOf(b) :
       LET call == CallsOf(b)[i]
       IN  /\ <<"register", b, i>> \in requests
           /\ <<"retrieve", b, i>> \in requests <=> call.post.kind = "ok"
           /\ call.post.kind # "ok" => call.get = None

C15_Witness ==
    \E b, c \in StartedBatches :
       \E i \in DOMAIN CallsOf(b), j \in DOMAIN CallsOf(c) :
          /\ CallsOf(b)[i].post.kind \in {"status", "fault"}
          /\ CallsOf(b)[i].state = "done"
          /\ <<"retrieve", b, i>> \notin requests
          /\ CallsOf(c)[j].post.kind = "ok"
          /\ <<"retrieve", c, j>> \in requests

\* The header write has been issued and not yet carried out.
HeaderInFlight == \E k \in DOMAIN pending : pending[k].op = "writeFile"

\* C16: the header is written once and its write has completed before the
\* first append is issued: no append is issued while the header write is in
\* flight, so the header cannot land after a data row or overwrite one.
C16_HeaderBeforeAppends == HeaderInFlight => appended = <<>>

\* C17: after the setBatchTime calls of the k batches started, the window
\* holds no more than capacity entries; entry j is the start time of the j-th
\* most recent batch for j up to min(k, capacity) and a zero placeholder
\* beyond; the tail is the oldest start time held, or zero while fewer than
\* capacity batches have started.
C17_WindowHoldsMostRecent ==
    Split =>
       LET k == Len(startTimes)
       IN  /\ Len(batchTimes) <= batchesPerMin
           /\ \A j \in DOMAIN batchTimes :
                 batchTimes[j] = IF j <= k THEN startTimes[k - j + 1] ELSE 0
           /\ batchTimes # <<>> =>
                 batchTimes[Len(batchTimes)] =
                    IF k >= batchesPerMin THEN startTimes[k - batchesPerMin + 1]
                    ELSE 0

C17_Witness ==
    /\ batchesPerMin = 2
    /\ Len(startTimes) = 3
    /\ startTimes[1] < startTimes[2]
    /\ startTimes[2] < startTimes[3]
    /\ batchTimes = <<startTimes[3], startTimes[2]>>

\* The check_exposure calls started and not yet resolved, as (batch, index).
InFlight == { c \in { <<q[2], q[3]>> : q \in requests } : c \notin outcomes }

\* C18: the screenings in flight at any moment are at most
\* min(P, ceil(N/2)) in number, N the number of addresses of the run, hence at
\* most P, and all belong to one batch.
C18_InFlightWithinBatch ==
    LET N == Len(NonBlankLines)
    IN  /\ Cardinality(InFlight) <= Min(parallelism, Ceil(N, 2))
        /\ Cardinality(InFlight) <= parallelism
        /\ \A c, d \in InFlight : c[1] = d[1]

C18_Witness ==
    /\ Cardinality(InFlight) = 2
    /\ parallelism = 2
    /\ \E c \in InFlight : c[1] = 1 /\ promises[c[2]].state = "retrieve"

\* The batch starts recorded in the half-open interval [from, from + WindowMs).
StartsWithin(from) ==
    { j \in DOMAIN startTimes :
         from <= startTimes[j] /\ startTimes[j] < from + WindowMs }

\* C19: with capacity >= 1, no half-open interval of 60 000 ms holds more than
\* capacity batch starts.  An interval holding the most starts can be moved to
\* begin at the first start it holds, so the intervals that begin at a
\* recorded start are the ones to count.
C19_WindowRateBound ==
    batchesPerMin >= 1 =>
       \A i \in DOMAIN startTimes :
          Cardinality(StartsWithin(startTimes[i])) <= batchesPerMin

C19_Witness ==
    /\ batchesPerMin = 2
    /\ Len(startTimes) = 3
    /\ Cardinality(StartsWithin(startTimes[1])) = 2
    /\ startTimes[3] = startTimes[1] + WindowMs

\* C20: every data row has as many comma-separated columns as the header of
\* the run, 6 + |catalog| without -i and 6 + 2 * |catalog| with -i, whether
\* the screening succeeded or failed.
C20_RowWidthIsHeaderWidth ==
    LET width == IF include_indirect THEN 6 + 2 * Len(categories)
                 ELSE 6 + Len(categories)
    IN  Split =>
           /\ Len(csv_header(categories)) = width
           /\ \A a \in DOMAIN appended : \A i \in DOMAIN appended[a].rows :
                 Len(appended[a].rows[i]) = width

\* C21: when rateLimit < 2 * P, so that the capacity is 0, the window stays
\* empty, checkRateLimit never suspends the run, and batches start back to
\* back: no time passes but while a batch is being screened, so each batch
\* starts at the instant the batch before it was joined.
C21_NoSpacingAtCapacityZero ==
    [][ batchesPerMin = 0 =>
          /\ rateLimit < RequestsPerAddress * parallelism
          /\ batchTimes' = <<>>
          /\ pc' # "sleeping"
          /\ sleepTime' = 0
          /\ pc # "processBatch" => now' = now ]_vars

C21_Witness ==
    /\ batchesPerMin = 0
    /\ pc = "done"
    /\ Len(startTimes) = 3
    /\ startTimes[2] = startTimes[1]
    /\ startTimes[3] = startTimes[2] + 30000
    /\ batchTimes = <<>>

====
